---- MODULE Spec2Model ----
(***************************************************************************)
(* A model of pyngsild: the NGSI-LD attribute tree (Entity, Property,      *)
(* GeoProperty, Relationship and the older Property class of property.py), *)
(* its rendering to_ngsild, and the ContextBroker session with its         *)
(* renew_access_token wrapper.                                             *)
(*                                                                         *)
(* Python values are tagged tuples: <<"None">>, <<"str", s>>, <<"int", i>>,*)
(* <<"obj", n>> (a reference to node n of the heap), <<"list", l>> (a      *)
(* reference to list object l of the heap) and <<"dict", pairs>> (an       *)
(* insertion-ordered mapping, pairs a sequence of <<key, value>>).         *)
(***************************************************************************)
EXTENDS Integers, Sequences, FiniteSets, TLC

VARIABLES
    nodes,      \* heap of Entity / attribute node objects, in allocation order
    lists,      \* heap of Python list objects, in allocation order
    tcall,      \* the last call made on the tree API: [op, self, arg]
    tret,       \* what that call returned or raised
    cb,         \* the ContextBroker object: [exists, access_token, headers]
    call,       \* per thread: the ContextBroker call in progress
    nacq,       \* number of header dicts built so far (identity of a dict)
    ncalls      \* number of calls the caller has started so far

treeVars == <<nodes, lists, tcall, tret>>
brokerVars == <<cb, call, nacq, ncalls>>
vars == <<nodes, lists, tcall, tret, cb, call, nacq, ncalls>>

(***************************************************************************)
(* Python values                                                           *)
(***************************************************************************)
None == <<"None">>
Str(s) == <<"str", s>>
PyInt(i) == <<"int", i>>
Obj(n) == <<"obj", n>>
ListRef(l) == <<"list", l>>
Dict(pairs) == <<"dict", pairs>>
Raise(e) == <<"raise", e>>
\* an exception whose message carries a number
RaiseWith(e, x) == <<"raise", e, x>>
Absent == <<"absent">>

IsObj(v) == v[1] = "obj"
IsList(v) == v[1] = "list"
IsDict(v) == v[1] = "dict"
IsStr(v) == v[1] = "str"
IsRaise(v) == v[1] = "raise"

\* dict: the keys, in insertion order
DictKeys(d) == [i \in 1..Len(d[2]) |-> d[2][i][1]]
KeySet(d) == {d[2][i][1] : i \in 1..Len(d[2])}
DictHas(d, k) == k \in KeySet(d)
DictGet(d, k) == LET i == CHOOSE j \in 1..Len(d[2]) : d[2][j][1] = k IN d[2][i][2]

\* a store that leaves a key already present as it is
DictSetDefault(d, k, v) == IF DictHas(d, k) THEN d ELSE Dict(Append(d[2], <<k, v>>))

\* d[k] = v: a key already present keeps its place, a new one goes last
DictSet(d, k, v) ==
    IF DictHas(d, k)
    THEN Dict([i \in 1..Len(d[2]) |-> IF d[2][i][1] = k THEN <<k, v>> ELSE d[2][i]])
    ELSE Dict(Append(d[2], <<k, v>>))

RECURSIVE DictUpdateFrom(_, _, _)
DictUpdateFrom(d, e, i) ==
    IF i > Len(e[2]) THEN d
    ELSE DictUpdateFrom(DictSet(d, e[2][i][1], e[2][i][2]), e, i + 1)

\* d.update(e)
DictUpdate(d, e) == DictUpdateFrom(d, e, 1)


(***************************************************************************)
(* The heap.  A node is a record with one field per attribute of the four  *)
(* classes; an attribute a class does not have is Absent.                  *)
(***************************************************************************)
Node(n) == nodes[n]
ListItems(l) == lists[l]
Allocated(n) == n \in 1..Len(nodes)

Classes == {"Entity", "Property", "GeoProperty", "Relationship", "LegacyProperty"}

\* isinstance(v, BaseProperty), proprel.py: Property and GeoProperty derive from it
IsBaseProperty(v) == IsObj(v) /\ Node(v[2]).cls \in {"Property", "GeoProperty"}
\* isinstance(v, Property) with Property imported from pyngsild.proprel
IsProperty(v) == IsObj(v) /\ Node(v[2]).cls = "Property"
IsRelationship(v) == IsObj(v) /\ Node(v[2]).cls = "Relationship"
IsEntity(v) == IsObj(v) /\ Node(v[2]).cls = "Entity"
\* isinstance(v, Property) inside property.py: the class of that module
IsLegacyProperty(v) == IsObj(v) /\ Node(v[2]).cls = "LegacyProperty"

(***************************************************************************)
(* to_ngsild                                                               *)
(***************************************************************************)
RECURSIVE to_ngsild(_, _)
RECURSIVE MergeChildren(_, _, _, _)

\* acc.update(r), unless rendering the child raised
MergeOne(items, i, acc, path, r) ==
    IF IsRaise(r) THEN r
    ELSE MergeChildren(items, i + 1, DictUpdate(acc, r), path)

\* for x in items: acc.update(x.to_ngsild())
MergeChildren(items, i, acc, path) ==
    IF i > Len(items) THEN acc
    ELSE IF ~IsObj(items[i]) THEN Raise("AttributeError")
    ELSE MergeOne(items, i, acc, path, to_ngsild(items[i][2], path))

\* if field is not None: d = {}; for x in field: d.update(x.to_ngsild())
ChildrenDict(field, path) ==
    IF field = None THEN Dict(<<>>)
    ELSE IF field = Absent THEN Raise("AttributeError")
    ELSE IF IsList(field) THEN MergeChildren(ListItems(field[2]), 1, Dict(<<>>), path)
    ELSE Raise("TypeError")

\* body.update(d), unless the loop that made d raised
UpdateWith(body, d) ==
    IF IsRaise(body) THEN body
    ELSE IF IsRaise(d) THEN d
    ELSE DictUpdate(body, d)

\* ngsild[name].update(p_dict)
MergeProperties(body, o, path) == UpdateWith(body, ChildrenDict(o.properties, path))

\* ngsild[name].update(r_dict)
MergeRelationships(body, o, path) ==
    UpdateWith(body, ChildrenDict(o.relationships, path))

\* a rendering that forgets the relationships block
WithProperties(body, o, path) == MergeProperties(body, o, path)

WithRelationshipsFirst(body, o, path) ==
    MergeProperties(MergeRelationships(body, o, path), o, path)

WithChildren(body, o, path) ==
    MergeRelationships(MergeProperties(body, o, path), o, path)

SetIfNotNone(d, k, v) == IF v # None THEN DictSet(d, k, v) ELSE d

\* proprel.py, Property.to_ngsild: the keys of the node itself
PropertyBody(o) ==
    SetIfNotNone(
        SetIfNotNone(
            SetIfNotNone(Dict(<< <<"type", Str("Property")>>, <<"value", o.value>> >>),
                         "observedAt", o.observed_at),
            "unitCode", o.unit_code),
        "datasetId", o.datasetid)

\* proprel.py, GeoProperty.to_ngsild
GeoPropertyBody(o) ==
    SetIfNotNone(
        SetIfNotNone(Dict(<< <<"type", Str("GeoProperty")>>, <<"value", o.value>> >>),
                     "observedAt", o.observed_at),
        "datasetId", o.datasetid)

\* a Relationship body written with the payload key of a Property
RelationshipBodyValue(o) ==
    SetIfNotNone(
        SetIfNotNone(Dict(<< <<"type", Str("Relationship")>>, <<"value", o.value>> >>),
                     "observedAt", o.observed_at),
        "datasetId", o.datasetid)

\* proprel.py, Relationship.to_ngsild
RelationshipBody(o) ==
    SetIfNotNone(
        SetIfNotNone(Dict(<< <<"type", Str("Relationship")>>, <<"object", o.value>> >>),
                     "observedAt", o.observed_at),
        "datasetId", o.datasetid)

\* property.py, Property.to_ngsild: the older class writes other key names
LegacyPropertyBody(o) ==
    SetIfNotNone(
        SetIfNotNone(
            SetIfNotNone(Dict(<< <<"type", Str("Property")>>, <<"value", o.value>> >>),
                         "observed_at", o.observed_at),
            "unitCode", o.unit_code),
        "datasetid", o.datasetid)

\* an Entity body that leaves '@context' out when there is none
EntityBodySparse(o) ==
    SetIfNotNone(Dict(<< <<"id", o.id>>, <<"type", o.type>> >>), "@context", o.at_context)

\* entity.py, Entity.to_ngsild: the keys of the entity itself
EntityBody(o) ==
    Dict(<< <<"@context", o.at_context>>, <<"id", o.id>>, <<"type", o.type>> >>)

Named(name, body) == IF IsRaise(body) THEN body ELSE Dict(<< <<name, body>> >>)

\* the to_ngsild of the class of o; below: the nodes whose to_ngsild is on
\* the call stack, o's included
Render(o, below) ==
    CASE o.cls = "Entity" -> WithChildren(EntityBody(o), o, below)
      [] o.cls = "Property" -> Named(o.name, WithChildren(PropertyBody(o), o, below))
      [] o.cls = "LegacyProperty" ->
             Named(o.name, WithChildren(LegacyPropertyBody(o), o, below))
      [] o.cls = "Relationship" ->
             Named(o.name, WithChildren(RelationshipBody(o), o, below))
      [] o.cls = "GeoProperty" -> Named(o.name, GeoPropertyBody(o))

\* a to_ngsild that gives up below the second level
to_ngsild_depth_limited(n, path) ==
    IF n \in path \/ Cardinality(path) >= 2 THEN Raise("RecursionError")
    ELSE Render(Node(n), path \cup {n})

\* a node met again below itself: the recursion has no end of its own
to_ngsild(n, path) ==
    IF n \in path THEN Raise("RecursionError")
    ELSE Render(Node(n), path \cup {n})

(***************************************************************************)
(* Construction and mutation of the tree.  An operation yields the heap    *)
(* after it and what it returned or raised: [nodes, lists, ret].           *)
(***************************************************************************)
Result(ns, ls, r) == [nodes |-> ns, lists |-> ls, ret |-> r]
Raised(e) == Result(nodes, lists, Raise(e))

\* The isinstance test a class applies to an argument of its properties
\* (f = "properties") or relationships field: Entity asks for
\* proprel.Property, Property and Relationship for BaseProperty, the class
\* of property.py for itself; property.py tests relationships against
\* pyngsild.relationship.Relationship, a class no object of this heap is an
\* instance of.
ChildOk(cls, f, v) ==
    IF f = "properties"
    THEN CASE cls = "Entity" -> IsProperty(v)
           [] cls \in {"Property", "Relationship"} -> IsBaseProperty(v)
           [] cls = "LegacyProperty" -> IsLegacyProperty(v)
           [] OTHER -> FALSE
    ELSE CASE cls \in {"Entity", "Property", "Relationship"} -> IsRelationship(v)
           [] OTHER -> FALSE

PropertyOk(n, v) == ChildOk(Node(n).cls, "properties", v)
RelationshipOk(n, v) == ChildOk(Node(n).cls, "relationships", v)

\* not any(not isinstance(x, K) for x in items)
AllOk(items, cls, f) == \A i \in 1..Len(items) : ChildOk(cls, f, items[i])

\* The properties / relationships setters: entity.py 77-114, proprel.py 346-389
\* and 648-690, property.py 106-144.  old is the stored value, cls the class
\* of the receiver.  A list holding an element of another kind falls through:
\* nothing is stored and nothing is raised.
SetterValue(old, v, cls, f) ==
    IF v = None THEN [val |-> None, lists |-> lists, ret |-> None]
    ELSE IF ChildOk(cls, f, v)
    THEN [val |-> ListRef(Len(lists) + 1), lists |-> Append(lists, <<v>>), ret |-> None]
    ELSE IF IsList(v)
    THEN [val |-> IF AllOk(ListItems(v[2]), cls, f) THEN v ELSE old,
          lists |-> lists, ret |-> None]
    ELSE [val |-> old, lists |-> lists, ret |-> Raise("TypeError")]

SetChildren(n, f, v) ==
    LET s == SetterValue(Node(n)[f], v, Node(n).cls, f)
    IN  Result([nodes EXCEPT ![n][f] = s.val], s.lists, s.ret)

\* add_properties / add_relationships: entity.py 117-213, proprel.py 392-495
\* and 693-795, property.py 147-245.  A single node is appended, or wrapped
\* in a new list when the field is None; a list is stored as it is when the
\* field is None, and otherwise its elements are appended one by one.
AddChildren(n, f, v) ==
    LET cur == Node(n)[f]
    IN  IF v = None THEN Result(nodes, lists, None)
        ELSE IF ChildOk(Node(n).cls, f, v)
        THEN IF cur = Absent THEN Raised("AttributeError")
             ELSE IF cur = None
             THEN Result([nodes EXCEPT ![n][f] = ListRef(Len(lists) + 1)],
                         Append(lists, <<v>>), None)
             ELSE IF IsList(cur)
             THEN Result(nodes, [lists EXCEPT ![cur[2]] = Append(@, v)], None)
             ELSE Raised("AttributeError")
        ELSE IF IsList(v)
        THEN IF AllOk(ListItems(v[2]), Node(n).cls, f)
             THEN IF cur = Absent THEN Raised("AttributeError")
                  ELSE IF cur = None
                  THEN Result([nodes EXCEPT ![n][f] = v], lists, None)
                  ELSE IF ListItems(v[2]) = <<>> THEN Result(nodes, lists, None)
                  ELSE IF ~IsList(cur) THEN Raised("AttributeError")
                  \* for x in L: L.append(x) never leaves the loop
                  ELSE IF cur = v THEN Raised("MemoryError")
                  ELSE Result(nodes,
                              [lists EXCEPT ![cur[2]] = @ \o ListItems(v[2])], None)
             ELSE Result(nodes, lists, None)
        ELSE Raised("TypeError")

HasChildrenAlways(n) == Node(n).cls \in Classes

\* GeoProperty defines none of the four methods
HasChildren(n) == Node(n).cls # "GeoProperty"

add_properties_assigning(n, v) ==
    IF ~HasChildren(n) THEN Raised("AttributeError")
    ELSE IF IsList(v) THEN SetChildren(n, "properties", v)
    ELSE AddChildren(n, "properties", v)

\* an add_properties that refuses the receiver as its own child
add_properties_refusing_self(n, v) ==
    IF ~HasChildren(n) THEN Raised("AttributeError")
    ELSE IF v = Obj(n) THEN Raised("ValueError")
    ELSE AddChildren(n, "properties", v)

add_properties(n, v) ==
    IF ~HasChildren(n) THEN Raised("AttributeError")
    ELSE AddChildren(n, "properties", v)

add_relationships(n, v) ==
    IF ~HasChildren(n) THEN Raised("AttributeError")
    ELSE AddChildren(n, "relationships", v)

\* on a GeoProperty the assignment makes a plain attribute, which nothing reads
set_properties(n, v) ==
    IF ~HasChildren(n) THEN Result([nodes EXCEPT ![n].properties = v], lists, None)
    ELSE SetChildren(n, "properties", v)

set_relationships(n, v) ==
    IF ~HasChildren(n) THEN Result([nodes EXCEPT ![n].relationships = v], lists, None)
    ELSE SetChildren(n, "relationships", v)

(***************************************************************************)
(* observed_at: a datetime is <<"datetime", wall, tzinfo>>, tzinfo None or *)
(* <<"tz", off>> with off the text of utcoffset() or None.                 *)
(***************************************************************************)
DateTime(wall, tzinfo) == <<"datetime", wall, tzinfo>>
TzInfo(off) == <<"tz", off>>
IsDateTime(v) == v[1] = "datetime"

is_dt_aware(dt) == dt[3] # None /\ dt[3][2] # None

\* datetime.isoformat(): the wall-clock text, then the offset when there is one
isoformat(dt) == IF is_dt_aware(dt) THEN Str(dt[2] \o dt[3][2][2]) ELSE Str(dt[2])

as_isoformat_unlocalized(dt, host) ==
    IF dt[3] # None /\ ~is_dt_aware(dt) THEN Raise("ValueError") ELSE isoformat(dt)

\* host: the offset of the zone get_localzone() returns.  pytz's localize
\* refuses a datetime whose tzinfo is set.
as_isoformat(dt, host) ==
    IF is_dt_aware(dt) THEN isoformat(dt)
    ELSE IF dt[3] # None THEN Raise("ValueError")
    ELSE isoformat(DateTime(dt[2], TzInfo(Str(host))))

observed_at_setter_unchecked(v, host) ==
    IF IsDateTime(v) THEN as_isoformat(v, host) ELSE v

\* the observed_at setter of BaseProperty and of Relationship
observed_at_setter(v, host) ==
    IF v = None THEN None
    ELSE IF IsDateTime(v) THEN as_isoformat(v, host)
    ELSE IF IsStr(v) THEN v
    ELSE Raise("TypeError")

\* observed_at assigned on node n: the classes of proprel.py go through the
\* setter above, the setter of property.py stores what it is given
set_observed_at(n, v, host) ==
    IF Node(n).cls = "LegacyProperty"
    THEN Result([nodes EXCEPT ![n].observed_at = v], lists, None)
    ELSE IF IsRaise(observed_at_setter(v, host))
    THEN Raised(observed_at_setter(v, host)[2])
    ELSE Result([nodes EXCEPT ![n].observed_at = observed_at_setter(v, host)],
                lists, None)

\* value assigned on the GeoProperty n: the setter asks for a dict and looks
\* at none of its keys
set_value(n, v) ==
    IF IsDict(v)
    THEN Result([nodes EXCEPT ![n].value = v], lists, None)
    ELSE Raised("TypeError")

(***************************************************************************)
(* Constructors.  A constructor that raises leaves no object behind.       *)
(***************************************************************************)
MkNode(cls, id, type, name, value, observed_at, unit_code, datasetid, at_context, properties, relationships) ==
    [cls |-> cls, id |-> id, type |-> type, name |-> name, value |-> value,
     observed_at |-> observed_at, unit_code |-> unit_code,
     datasetid |-> datasetid, at_context |-> at_context,
     properties |-> properties, relationships |-> relationships]

NewRef == Obj(Len(nodes) + 1)

\* Entity.__init__: properties goes through the setter, relationships is
\* stored as given
Entity_init(id, type, properties, relationships) ==
    LET s == SetterValue(Absent, properties, "Entity", "properties")
    IN  IF IsRaise(s.ret) THEN Raised(s.ret[2])
        ELSE Result(Append(nodes,
                        MkNode("Entity", id, type, Absent, Absent, Absent, Absent,
                               Absent, None, s.val, relationships)),
                    s.lists, NewRef)

\* proprel.Property.__init__: observed_at goes through the setter, properties
\* and relationships are stored as given
Property_init(name, value, observed_at, unit_code, datasetid, properties, relationships, host) ==
    LET o == observed_at_setter(observed_at, host)
    IN  IF IsRaise(o) THEN Raised(o[2])
        ELSE Result(Append(nodes,
                        MkNode("Property", Absent, Absent, name, value, o, unit_code,
                               datasetid, Absent, properties, relationships)),
                    lists, NewRef)

\* GeoProperty.__init__: the value setter asks for a dict
GeoProperty_init(name, value, observed_at, datasetid, host) ==
    LET o == observed_at_setter(observed_at, host)
    IN  IF IsRaise(o) THEN Raised(o[2])
        ELSE IF ~IsDict(value) THEN Raised("TypeError")
        ELSE Result(Append(nodes,
                        MkNode("GeoProperty", Absent, Absent, name, value, o, Absent,
                               datasetid, Absent, Absent, Absent)),
                    lists, NewRef)

\* Relationship.__init__
Relationship_init(name, object_, observed_at, datasetid, properties, relationships, host) ==
    LET o == observed_at_setter(observed_at, host)
    IN  IF IsRaise(o) THEN Raised(o[2])
        ELSE Result(Append(nodes,
                        MkNode("Relationship", Absent, Str("Relationship"), name,
                               object_, o, Absent, datasetid, Absent, properties,
                               relationships)),
                    lists, NewRef)

\* property.Property.__init__: every argument is stored as given
LegacyProperty_init(name, value, observed_at, unit_code, datasetid, properties, relationships) ==
    Result(Append(nodes,
               MkNode("LegacyProperty", Absent, Absent, name, value, observed_at,
                      unit_code, datasetid, Absent, properties, relationships)),
           lists, NewRef)

(***************************************************************************)
(* The tree API as actions.  The caller's inputs come from small sets: a   *)
(* set K of (name, observed_at, datasetid) for a new attribute node, a cap *)
(* on the number of objects, and the nodes the caller hands to add_*.      *)
(***************************************************************************)
MaxNodes == 3
MaxLists == 2
MaxLen == 2
MaxMetaNodes == 2

Names == {"temp", "type", "value", "object"}
ObservedAtTexts == {Str("2021-07-22T10:11:12.000013+02:00")}
DatasetIds == {Str("urn:dataset:1")}
NameLooks == {<<nm, None, None>> : nm \in Names}
\* observed_at as a caller may give it: nothing, a text, a naive datetime, an
\* aware datetime, a datetime whose tzinfo knows no offset
MetaObserved ==
    {None} \cup ObservedAtTexts
    \cup {DateTime("2021-07-22T10:11:12.000013", None),
          DateTime("2021-07-22T08:11:12.000013", TzInfo(Str("+00:00"))),
          DateTime("2021-07-22T10:11:12.000013", TzInfo(None))}
MetaLooks == {<<"temp", o, d>> : o \in MetaObserved, d \in {None} \cup DatasetIds}
\* and a value that is no timestamp at all
ObservedInputs == MetaObserved \cup {PyInt(1234)}
ObservedLooks == {<<"temp", o, None>> : o \in ObservedInputs}
Contexts == {Str("https://example.org/context.jsonld")}
HostOffset == "+02:00"
GeoValue == Dict(<< <<"type", Str("Point")>>, <<"coordinates", Str("[39.27, 16.40]")>> >>)
\* values a caller may give a GeoProperty: a geometry, a dict that lacks one
\* of the two keys or both, and values that are no dict
GeoValues ==
    {GeoValue,
     Dict(<< <<"type", Str("Point")>> >>),
     Dict(<< <<"coordinates", Str("[39.27, 16.40]")>> >>),
     Dict(<< >>),
     Str("Point"), PyInt(1), None}
\* the payload of the node allocated next
NextValue == PyInt(Len(nodes) + 1)

NodeRefs == {Obj(n) : n \in 1..Len(nodes)}

Fits(r, cap) ==
    /\ Len(r.nodes) <= cap
    /\ Len(r.lists) <= MaxLists
    /\ \A l \in 1..Len(r.lists) : Len(r.lists[l]) <= MaxLen

Do(op, n, v, r) ==
    /\ nodes' = r.nodes
    /\ lists' = r.lists
    /\ tret' = r.ret
    /\ tcall' = [op |-> op, self |-> n, arg |-> v]
    /\ UNCHANGED brokerVars

NewEntity(cap) ==
    LET r == Entity_init(Str("uri:entity:1"), Str("ENTITY"), None, None)
    IN  Fits(r, cap) /\ Do("Entity", 0, None, r)

NewProperty(K, cap) ==
    \E k \in K :
        LET r == Property_init(k[1], NextValue, k[2], None, k[3], None, None,
                               HostOffset)
        IN  Fits(r, cap) /\ Do("Property", 0, k[2], r)

NewGeoProperty(K, cap) ==
    \E k \in K :
        LET r == GeoProperty_init(k[1], GeoValue, k[2], k[3], HostOffset)
        IN  Fits(r, cap) /\ Do("GeoProperty", 0, k[2], r)

NewRelationship(K, cap) ==
    \E k \in K :
        LET r == Relationship_init(k[1], NextValue, k[2], k[3], None, None,
                                   HostOffset)
        IN  Fits(r, cap) /\ Do("Relationship", 0, k[2], r)

NewLegacyProperty(K, cap) ==
    \E k \in K :
        LET r == LegacyProperty_init(k[1], NextValue, k[2], None, k[3], None, None)
        IN  Fits(r, cap) /\ Do("LegacyProperty", 0, k[2], r)

\* the nodes a stored field holds
Held(f) == IF IsList(f) THEN {ListItems(f[2])[i] : i \in 1..Len(ListItems(f[2]))} ELSE {}
\* node v is a child of some node
Owned(v) ==
    \E n \in 1..Len(nodes) :
        Obj(v) \in Held(Node(n).properties) \cup Held(Node(n).relationships)
\* every node but the first one made has been given to a parent
Settled == \A v \in 2..Len(nodes) : Owned(v)

\* the caller builds a tree: it hands over a node made after the receiver,
\* of the kind the receiver asks for, that has no parent yet
Attachable(n, v, f) == n < v[2] /\ ~Owned(v[2]) /\ ChildOk(Node(n).cls, f, v)

AttachProperty ==
    \E n \in 1..Len(nodes), v \in NodeRefs :
        LET r == add_properties(n, v)
        IN  /\ Attachable(n, v, "properties")
            /\ Fits(r, MaxNodes)
            /\ Do("add_properties", n, v, r)

AttachRelationship ==
    \E n \in 1..Len(nodes), v \in NodeRefs :
        LET r == add_relationships(n, v)
        IN  /\ Attachable(n, v, "relationships")
            /\ Fits(r, MaxNodes)
            /\ Do("add_relationships", n, v, r)

\* Entity.at_context setter
SetAtContext ==
    \E n \in 1..Len(nodes), c \in Contexts :
        /\ Node(n).cls = "Entity"
        /\ Do("set_at_context", n, c,
              Result([nodes EXCEPT ![n].at_context = c], lists, None))

ToNgsild ==
    \E n \in 1..Len(nodes) :
        Do("to_ngsild", n, None, Result(nodes, lists, to_ngsild(n, {})))

NoCall == [op |-> "none", self |-> 0, arg |-> None]

(***************************************************************************)
(* The caller hands over what it likes: nothing, any attribute node, any   *)
(* list object it holds, the list a node stores included.  The calls of a  *)
(* run are counted.                                                        *)
(***************************************************************************)
MaxOps == 2

ListRefs == {ListRef(l) : l \in 1..Len(lists)}
ChildArgs == {None} \cup {v \in NodeRefs : ~IsEntity(v)} \cup ListRefs

DoCounted(op, n, v, r) ==
    /\ ncalls < MaxOps
    /\ nodes' = r.nodes
    /\ lists' = r.lists
    /\ tret' = r.ret
    /\ tcall' = [op |-> op, self |-> n, arg |-> v]
    /\ ncalls' = ncalls + 1
    /\ UNCHANGED <<cb, call, nacq>>

AddProperties ==
    \E n \in 1..Len(nodes), v \in ChildArgs :
        DoCounted("add_properties", n, v, add_properties(n, v))

AddRelationships ==
    \E n \in 1..Len(nodes), v \in ChildArgs :
        DoCounted("add_relationships", n, v, add_relationships(n, v))

SetProperties ==
    \E n \in 1..Len(nodes), v \in ChildArgs :
        DoCounted("set_properties", n, v, set_properties(n, v))

SetRelationships ==
    \E n \in 1..Len(nodes), v \in ChildArgs :
        DoCounted("set_relationships", n, v, set_relationships(n, v))

SetObservedAt ==
    \E n \in 1..Len(nodes), v \in ObservedInputs :
        Do("set_observed_at", n, v, set_observed_at(n, v, HostOffset))

\* Constructors called with the optional properties and relationships:
\* nothing, a single node, or a list
CtorArgs == {None, Obj(3), Obj(4), ListRef(1)}

NewEntityWith ==
    \E p \in CtorArgs, q \in CtorArgs :
        DoCounted("Entity", 0, p,
                  Entity_init(Str("uri:entity:2"), Str("ENTITY"), p, q))

NewPropertyWith ==
    \E p \in CtorArgs, q \in CtorArgs :
        DoCounted("Property", 0, p,
                  Property_init("uv_index", NextValue, None, None, None, p, q,
                                HostOffset))

NewRelationshipWith ==
    \E p \in CtorArgs, q \in CtorArgs :
        DoCounted("Relationship", 0, p,
                  Relationship_init("to_object_2", Str("uri:object_2"), None, None,
                                    p, q, HostOffset))

\* GeoProperty(name, value) with every value, and the assignment of value
NewGeoValued(cap) ==
    \E v \in GeoValues :
        LET r == GeoProperty_init("location", v, None, None, HostOffset)
        IN  Fits(r, cap) /\ Do("GeoProperty", 0, v, r)

SetValue ==
    \E n \in 1..Len(nodes), v \in GeoValues :
        /\ Node(n).cls = "GeoProperty"
        /\ Do("set_value", n, v, set_value(n, v))

(***************************************************************************)
(* utils/auth_utils.py.  What requests.post gives get_token: it raises, or *)
(* it returns a response <<"answer", status, body>>, body the JSON value   *)
(* of the content, Absent when the content is no JSON.                     *)
(***************************************************************************)
TokenAnswers ==
    {Raise("ConnectionError"), Raise("Timeout"), Raise("MissingSchema")}
    \cup {<<"answer", st, b>> :
             st \in {200, 201, 204, 304, 400, 401, 403, 404, 500, 503},
             b \in {Absent, None, Str("tokA"), PyInt(1), Dict(<<>>),
                    Dict(<< <<"access_token", Str("tokA")>> >>),
                    Dict(<< <<"access_token", Str("tokB")>>, <<"expires_in", PyInt(300)>> >>),
                    Dict(<< <<"access_token", None>> >>),
                    Dict(<< <<"error", Str("invalid_client")>> >>),
                    Dict(<< <<"token", Str("tokA")>> >>)}}

\* the body of the try block: post, raise_for_status, json, subscript
get_token_try(ans) ==
    IF IsRaise(ans) THEN ans
    ELSE IF ans[2] >= 400 THEN Raise("HTTPError")
    ELSE IF ans[3] = Absent THEN Raise("JSONDecodeError")
    ELSE IF ~IsDict(ans[3]) THEN Raise("TypeError")
    ELSE IF ~DictHas(ans[3], "access_token") THEN Raise("KeyError")
    ELSE DictGet(ans[3], "access_token")

get_token_uncaught(ans) == get_token_try(ans)

\* except Exception: print, return None
get_token(ans) == IF IsRaise(get_token_try(ans)) THEN None ELSE get_token_try(ans)

GetToken ==
    \E ans \in TokenAnswers :
        Do("get_token", 0, ans, Result(nodes, lists, get_token(ans)))

(***************************************************************************)
(* ContextBroker.  A call runs on a thread and is suspended at each network*)
(* round trip; the broker and the identity server answer as they please.   *)
(***************************************************************************)
MaxCalls == 3

Threads == {"main", "other"}
MainThread == "main"

Unauthorized == 401
StatusOk == 200
BrokerStatuses == {200, 401, 404}
TokenTexts == {"tokA", "tokB"}
\* what the identity server may answer: a refusal, or 200 with a JSON body
\* that holds an access_token or does not
SsoAnswers ==
    {[status |-> st, body |-> None] : st \in {401, 500}}
    \cup {[status |-> 200, body |-> Dict(<< <<"access_token", Str(tk)>> >>)] :
              tk \in TokenTexts}
    \cup {[status |-> 200, body |-> Dict(<<>>)]}

CbHost == "http://broker/"
UrlEntities == "ngsi-ld/v1/entities/"
EntityIds == {Str("uri:entity:1")}
QueryParams == {Str("type=ENTITY")}

\* headers whose Authorization is the token alone
HeadersWithoutScheme(oid, tok) ==
    [oid |-> oid,
     d |-> Dict(<< <<"Authorization", Str(tok)>>,
                   <<"Content-Type", Str("application/ld+json")>> >>)]

\* a headers dict, oid its identity
Headers(oid, tok) ==
    [oid |-> oid,
     d |-> Dict(<< <<"Authorization", Str("Bearer " \o tok)>>,
                   <<"Content-Type", Str("application/ld+json")>> >>)]

NoHeaders == [oid |-> 0, d |-> Dict(<<>>)]

Response(k, st) == <<"response", k, st>>
IsResponse(v) == v[1] = "response"

\* a request built by func: the headers are read when it is built
BrokerRequest(method, url, body) ==
    <<"request", [to |-> "broker", method |-> method, url |-> url,
                  headers |-> cb.headers, body |-> body]>>

SsoRequest ==
    [to |-> "sso", method |-> "POST", url |-> "http://sso/token",
     headers |-> [oid |-> 0, d |-> Dict(<< <<"Content-Type",
                      Str("application/x-www-form-urlencoded")>> >>)],
     body |-> Str("client_id&client_secret&grant_type=client_credentials")]

StampSkipped(f, at_context) == f

\* ctxbroker.py 203-209: the rendered fragment with '@context' stamped on it
Stamp(f, at_context) == IF IsRaise(f) THEN f ELSE DictSet(f, "@context", at_context)
StampContext(x, at_context) == Stamp(to_ngsild(x[2], {}), at_context)

\* a guard that lets every BaseProperty through
IsFragmentOfBase(x) == IsBaseProperty(x) \/ IsRelationship(x)

\* the isinstance guard of update_ and append_entity_attributes
IsFragment(x) == IsProperty(x) \/ IsRelationship(x)

\* requests.<method>(url, json=body, headers=self.headers), unless making
\* the body raised
Send(method, url, body) ==
    IF IsRaise(body) THEN body ELSE BrokerRequest(method, url, body)

\* The body of each decorated method: the request it sends, or what it
\* raises before sending anything.  a: [entity_id, at_context, x]
Func(op, a) ==
    CASE op = "query_entities" ->
             BrokerRequest("GET", CbHost \o UrlEntities, a.x)
      [] op = "retrieve_entity" ->
             BrokerRequest("GET", CbHost \o UrlEntities \o a.entity_id[2], None)
      [] op = "create_entity" ->
             IF ~IsEntity(a.x) THEN Raise("TypeError")
             ELSE Send("POST", CbHost \o UrlEntities, to_ngsild(a.x[2], {}))
      [] op = "update_entity_attributes" ->
             IF ~IsFragment(a.x) THEN Raise("TypeError")
             ELSE Send("PATCH", CbHost \o UrlEntities \o a.entity_id[2] \o "/attrs/",
                       StampContext(a.x, a.at_context))
      [] op = "append_entity_attributes" ->
             IF ~IsFragment(a.x) THEN Raise("TypeError")
             ELSE Send("POST", CbHost \o UrlEntities \o a.entity_id[2] \o "/attrs/",
                       StampContext(a.x, a.at_context))
      [] op = "delete_entity" ->
             BrokerRequest("DELETE", CbHost \o UrlEntities \o a.entity_id[2], None)

\* a get_access_token that takes only a server error for a refusal
get_access_token_5xx(ans) ==
    IF ans.status >= 500 THEN RaiseWith("Exception", ans.status)
    ELSE IF ans.body = None THEN Raise("JSONDecodeError")
    ELSE IF ~DictHas(ans.body, "access_token") THEN Raise("KeyError")
    ELSE LET tk == DictGet(ans.body, "access_token")
         IN  <<"pair", [access_token |-> tk, headers |-> Headers(nacq + 1, tk[2])]>>

\* get_access_token, after the identity server has answered: what it raises,
\* or the (access_token, headers) pair it returns
get_access_token(ans) ==
    IF ans.status # StatusOk THEN RaiseWith("Exception", ans.status)
    ELSE IF ~DictHas(ans.body, "access_token") THEN Raise("KeyError")
    ELSE LET tk == DictGet(ans.body, "access_token")
         IN  <<"pair", [access_token |-> tk, headers |-> Headers(nacq + 1, tk[2])]>>

\* a wrapper that renews for as long as the broker says 401
WrapperWhile(k, st) == IF k <= 2 /\ st = 401 THEN "renew" ELSE "return"

\* a wrapper that renews on every status but 200
WrapperOnError(k, st) == IF k = 1 /\ st # 200 THEN "renew" ELSE "return"

\* renew_access_token.wrapper, after the answer to broker request number k:
\* ask for a new token and run func again, or return the response
Wrapper(k, st) == IF k = 1 /\ st = Unauthorized THEN "renew" ELSE "return"

NoArgs == [entity_id |-> None, at_context |-> None, x |-> None]
NoToken == [access_token |-> None, headers |-> NoHeaders]
NoBroker == [exists |-> FALSE, access_token |-> None, headers |-> NoHeaders]

\* A call: where it stands (pc), the method and its arguments, the requests
\* it has sent, the status of each broker response (resp) and of each
\* identity-server response (sso) it has received, the pair its renewal got
\* from get_access_token, what it returned or raised, and the fields of
\* the ContextBroker as they were when it began (cb0).
Idle == [pc |-> "idle", op |-> "none", args |-> NoArgs, sent |-> <<>>,
         resp |-> <<>>, sso |-> <<>>, got |-> NoToken, ret |-> None,
         cb0 |-> NoBroker]

ToBroker(q) == q.to = "broker"
ToSso(q) == q.to = "sso"
BrokerRequestsOf(c) == SelectSeq(c.sent, ToBroker)
SsoRequestsOf(c) == SelectSeq(c.sent, ToSso)

\* func has run: its request is in flight, or the call ends with what it raised
Started(c, f) ==
    IF IsRaise(f) THEN [c EXCEPT !.pc = "done", !.ret = f]
    ELSE [c EXCEPT !.pc = "wait", !.sent = Append(@, f[2])]

\* ContextBroker(): the constructor asks for a token before anything else
Construct(t) ==
    /\ call[t].pc = "idle"
    /\ ~cb.exists
    /\ ncalls < MaxCalls
    /\ ncalls' = ncalls + 1
    /\ call' = [call EXCEPT ![t] = [Idle EXCEPT !.pc = "ctor_wait", !.op = "__init__",
                                                !.sent = <<SsoRequest>>, !.cb0 = cb]]
    /\ UNCHANGED <<cb, nacq>>
    /\ UNCHANGED treeVars

\* one of the six decorated methods is called: func runs for the first time
Invoke(t, op, a) ==
    /\ call[t].pc = "idle"
    /\ cb.exists
    /\ ncalls < MaxCalls
    /\ ncalls' = ncalls + 1
    /\ call' = [call EXCEPT ![t] = Started([Idle EXCEPT !.op = op, !.args = a, !.cb0 = cb],
                                            Func(op, a))]
    /\ UNCHANGED <<cb, nacq>>
    /\ UNCHANGED treeVars

\* the broker answers the request in flight
BrokerAnswers(t, st) ==
    /\ call[t].pc = "wait"
    /\ LET c == call[t]
           k == Len(BrokerRequestsOf(c))
       IN  call' = [call EXCEPT ![t] =
                       IF Wrapper(k, st) = "renew"
                       THEN [c EXCEPT !.pc = "sso_wait", !.resp = Append(@, st),
                                      !.sent = Append(@, SsoRequest)]
                       ELSE [c EXCEPT !.pc = "done", !.resp = Append(@, st),
                                      !.ret = Response(k, st)]]
    /\ UNCHANGED <<cb, nacq, ncalls>>
    /\ UNCHANGED treeVars

\* the identity server answers the constructor
SsoAnswersCtor(t, ans) ==
    /\ call[t].pc = "ctor_wait"
    /\ LET g == get_access_token(ans)
       IN  IF IsRaise(g)
           THEN /\ call' = [call EXCEPT ![t].pc = "done", ![t].ret = g,
                                        ![t].sso = Append(@, ans.status)]
                /\ UNCHANGED <<cb, nacq>>
           ELSE /\ call' = [call EXCEPT ![t].pc = "done",
                                        ![t].ret = Str("ContextBroker"),
                                        ![t].sso = Append(@, ans.status)]
                /\ cb' = [exists |-> TRUE, access_token |-> g[2].access_token,
                          headers |-> g[2].headers]
                /\ nacq' = nacq + 1
    /\ UNCHANGED ncalls
    /\ UNCHANGED treeVars

\* a renewal that runs the operation again when no token could be got
SsoAnswersRenewalSwallowed(t, ans) ==
    /\ call[t].pc = "sso_wait"
    /\ LET g == get_access_token(ans)
       IN  IF IsRaise(g)
           THEN /\ call' = [call EXCEPT ![t].pc = "retry",
                                        ![t].sso = Append(@, ans.status)]
                /\ UNCHANGED nacq
           ELSE /\ call' = [call EXCEPT ![t].pc = "store_token", ![t].got = g[2],
                                        ![t].sso = Append(@, ans.status)]
                /\ nacq' = nacq + 1
    /\ UNCHANGED <<cb, ncalls>>
    /\ UNCHANGED treeVars

\* the identity server answers a renewal
SsoAnswersRenewal(t, ans) ==
    /\ call[t].pc = "sso_wait"
    /\ LET g == get_access_token(ans)
       IN  IF IsRaise(g)
           THEN /\ call' = [call EXCEPT ![t].pc = "done", ![t].ret = g,
                                        ![t].sso = Append(@, ans.status)]
                /\ UNCHANGED nacq
           ELSE /\ call' = [call EXCEPT ![t].pc = "store_token", ![t].got = g[2],
                                        ![t].sso = Append(@, ans.status)]
                /\ nacq' = nacq + 1
    /\ UNCHANGED <<cb, ncalls>>
    /\ UNCHANGED treeVars

\* a renewal that stores the token and the headers in one step
StoreTokenAndHeaders(t) ==
    /\ call[t].pc = "store_token"
    /\ cb' = [cb EXCEPT !.access_token = call[t].got.access_token,
                        !.headers = call[t].got.headers]
    /\ call' = [call EXCEPT ![t].pc = "store_headers"]
    /\ UNCHANGED <<nacq, ncalls>>
    /\ UNCHANGED treeVars

\* self._access_token, self._headers = ...: two stores, one after the other
StoreToken(t) ==
    /\ call[t].pc = "store_token"
    /\ cb' = [cb EXCEPT !.access_token = call[t].got.access_token]
    /\ call' = [call EXCEPT ![t].pc = "store_headers"]
    /\ UNCHANGED <<nacq, ncalls>>
    /\ UNCHANGED treeVars

\* a renewal that keeps the new token and leaves the headers as they were
StoreHeadersSkipped(t) ==
    /\ call[t].pc = "store_headers"
    /\ call' = [call EXCEPT ![t].pc = "retry"]
    /\ UNCHANGED <<cb, nacq, ncalls>>
    /\ UNCHANGED treeVars

StoreHeaders(t) ==
    /\ call[t].pc = "store_headers"
    /\ cb' = [cb EXCEPT !.headers = call[t].got.headers]
    /\ call' = [call EXCEPT ![t].pc = "retry"]
    /\ UNCHANGED <<nacq, ncalls>>
    /\ UNCHANGED treeVars

\* func runs again
Retry(t) ==
    /\ call[t].pc = "retry"
    /\ call' = [call EXCEPT ![t] = Started(call[t], Func(call[t].op, call[t].args))]
    /\ UNCHANGED <<cb, nacq, ncalls>>
    /\ UNCHANGED treeVars

\* the caller takes the result
Return(t) ==
    /\ call[t].pc = "done"
    /\ call' = [call EXCEPT ![t] = Idle]
    /\ UNCHANGED <<cb, nacq, ncalls>>
    /\ UNCHANGED treeVars

TreeInit ==
    /\ nodes = <<>>
    /\ lists = <<>>
    /\ tcall = NoCall
    /\ tret = None

BrokerIdle ==
    /\ cb = NoBroker
    /\ call = [t \in Threads |-> Idle]
    /\ nacq = 0
    /\ ncalls = 0

Init == TreeInit /\ BrokerIdle

\* Trees of named nodes, built top-down and rendered: the first node made is
\* the root, and a node is given to its parent before the next one is made
Next ==
    \/ Len(nodes) = 0 /\ NewEntity(MaxNodes)
    \/ Settled /\ NewProperty(NameLooks, MaxNodes)
    \/ Settled /\ NewGeoProperty(NameLooks, MaxNodes)
    \/ Settled /\ NewRelationship(NameLooks, MaxNodes)
    \/ AttachProperty
    \/ AttachRelationship
    \/ SetAtContext
    \/ ToNgsild

Spec == Init /\ [][Next]_vars

\* Nodes of every class, constructed with and without observed_at and
\* datasetid, and rendered
NextMeta ==
    \/ NewProperty(MetaLooks, MaxMetaNodes)
    \/ NewGeoProperty(MetaLooks, MaxMetaNodes)
    \/ NewRelationship(MetaLooks, MaxMetaNodes)
    \/ NewLegacyProperty(MetaLooks, MaxMetaNodes)
    \/ ToNgsild

SpecMeta == Init /\ [][NextMeta]_vars

\* Attribute nodes of every class, constructed with every kind of observed_at
\* and assigned observed_at afterwards
NextObserved ==
    \/ NewProperty(ObservedLooks, MaxMetaNodes)
    \/ NewGeoProperty(ObservedLooks, MaxMetaNodes)
    \/ NewRelationship(ObservedLooks, MaxMetaNodes)
    \/ NewLegacyProperty(ObservedLooks, MaxMetaNodes)
    \/ SetObservedAt

SpecObserved == Init /\ [][NextObserved]_vars

\* GeoProperty objects built and assigned with every value
NextGeo ==
    \/ NewGeoValued(MaxMetaNodes)
    \/ SetValue

SpecGeo == Init /\ [][NextGeo]_vars

\* get_token called with every answer of the authentication server
NextToken == GetToken

SpecToken == Init /\ [][NextToken]_vars

(***************************************************************************)
(* One ContextBroker used by one thread: the objects the caller passes     *)
(* exist already, an Entity, a Property with a sub-property, a             *)
(* Relationship and a GeoProperty.                                         *)
(***************************************************************************)
CallerObjects ==
    << MkNode("Entity", Str("uri:entity:1"), Str("ENTITY"), Absent, Absent, Absent,
              Absent, Absent, None, None, None),
       MkNode("Property", Absent, Absent, "plant_health", PyInt(5), None, None, None,
              Absent, ListRef(1), None),
       MkNode("Property", Absent, Absent, "temperature", PyInt(37), None, Str("CEL"),
              None, Absent, None, None),
       MkNode("Relationship", Absent, Str("Relationship"), "to_object_1",
              Str("uri:object_1"), None, Absent, None, Absent, None, None),
       MkNode("GeoProperty", Absent, Absent, "location", GeoValue, None, Absent, None,
              Absent, Absent, Absent) >>

CallArgs(op) ==
    CASE op = "query_entities" ->
             {[entity_id |-> None, at_context |-> None, x |-> q] : q \in QueryParams}
      [] op \in {"retrieve_entity", "delete_entity"} ->
             {[entity_id |-> e, at_context |-> None, x |-> None] : e \in EntityIds}
      [] op = "create_entity" ->
             {[entity_id |-> None, at_context |-> None, x |-> v] :
                  v \in NodeRefs \cup {None}}
      [] op \in {"update_entity_attributes", "append_entity_attributes"} ->
             {[entity_id |-> e, at_context |-> c, x |-> v] :
                  e \in EntityIds, c \in Contexts, v \in NodeRefs \cup {None}}

Operations == {"query_entities", "retrieve_entity", "create_entity",
               "update_entity_attributes", "append_entity_attributes",
               "delete_entity"}

\* and a Property that is named like the key of the context
BrokerObjects ==
    Append(CallerObjects,
           MkNode("Property", Absent, Absent, "@context", PyInt(1), None, None, None,
                  Absent, None, None))

InitBroker ==
    /\ nodes = BrokerObjects
    /\ lists = << <<Obj(3)>> >>
    /\ tcall = NoCall
    /\ tret = None
    /\ BrokerIdle

NextBroker ==
    \/ Construct(MainThread)
    \/ \E op \in Operations : \E a \in CallArgs(op) : Invoke(MainThread, op, a)
    \/ \E st \in BrokerStatuses : BrokerAnswers(MainThread, st)
    \/ \E ans \in SsoAnswers : SsoAnswersCtor(MainThread, ans)
    \/ \E ans \in SsoAnswers : SsoAnswersRenewal(MainThread, ans)
    \/ StoreToken(MainThread)
    \/ StoreHeaders(MainThread)
    \/ Retry(MainThread)
    \/ Return(MainThread)

SpecBroker == InitBroker /\ [][NextBroker]_vars

\* One ContextBroker shared by two threads: a step of one call may come
\* between any two steps of the other
ThreadOperations == {"retrieve_entity", "delete_entity"}

NextThreads ==
    \E t \in Threads :
        \/ Construct(t)
        \/ \E op \in ThreadOperations : \E a \in CallArgs(op) : Invoke(t, op, a)
        \/ \E st \in BrokerStatuses : BrokerAnswers(t, st)
        \/ \E ans \in SsoAnswers : SsoAnswersCtor(t, ans)
        \/ \E ans \in SsoAnswers : SsoAnswersRenewal(t, ans)
        \/ StoreToken(t)
        \/ StoreHeaders(t)
        \/ Retry(t)
        \/ Return(t)

SpecThreads == InitBroker /\ [][NextThreads]_vars

(***************************************************************************)
(* The caller's objects exist already, and two lists it holds besides the  *)
(* one it gave to plant_health: an empty one, and one of a Property and a  *)
(* GeoProperty.  It calls add_*, assigns properties and relationships, and *)
(* renders.                                                                *)
(***************************************************************************)
CallerLists == << <<Obj(3)>>, <<>>, <<Obj(3), Obj(5)>> >>

InitAdd ==
    /\ nodes = CallerObjects
    /\ lists = CallerLists
    /\ tcall = NoCall
    /\ tret = None
    /\ BrokerIdle

NextAdd ==
    \/ AddProperties
    \/ AddRelationships
    \/ SetProperties
    \/ SetRelationships
    \/ ToNgsild

SpecAdd == InitAdd /\ [][NextAdd]_vars

\* the same objects, and nodes constructed with children
NextCtor ==
    \/ NewEntityWith
    \/ NewPropertyWith
    \/ NewRelationshipWith
    \/ AddProperties
    \/ AddRelationships
    \/ SetProperties
    \/ SetRelationships
    \/ ToNgsild

SpecCtor == InitAdd /\ [][NextCtor]_vars

(***************************************************************************)
(* Properties of the ContextBroker session, checked under SpecBroker       *)
(***************************************************************************)
Decorated(c) == c.op \in Operations
FirstWas401(c) == Len(c.resp) >= 1 /\ c.resp[1] = Unauthorized

\* C1, as stated: a call whose first attempt got 401 asks for a token exactly
\* once and runs the operation exactly once more, and returns the second
\* response whatever its status; no call sends more than two broker requests
\* or more than one token request.
C1_RenewOnceRetryOnce ==
    \A t \in Threads :
        LET c == call[t]
        IN  Decorated(c) =>
                /\ Len(BrokerRequestsOf(c)) <= 2
                /\ Len(SsoRequestsOf(c)) <= 1
                /\ (c.pc = "done" /\ FirstWas401(c)) =>
                       /\ Len(SsoRequestsOf(c)) = 1
                       /\ Len(BrokerRequestsOf(c)) = 2
                       /\ Len(c.resp) = 2
                       /\ c.ret = Response(2, c.resp[2])

\* C1, amended: a call whose first attempt got 401 asks for a token exactly
\* once; when get_access_token returns, the operation runs exactly once
\* more and its response is returned whatever its status, another 401
\* included; when get_access_token raises, that error ends the call and the
\* operation is not run again.  No call sends more than two broker requests
\* or more than one token request.
C1_RenewOnceRetryIfAcquired ==
    \A t \in Threads :
        LET c == call[t]
        IN  Decorated(c) =>
                /\ Len(BrokerRequestsOf(c)) <= 2
                /\ Len(SsoRequestsOf(c)) <= 1
                /\ (c.pc = "done" /\ FirstWas401(c)) =>
                       /\ Len(SsoRequestsOf(c)) = 1
                       /\ Len(c.sso) = 1
                       /\ IF c.sso[1] = StatusOk /\ c.got # NoToken
                          THEN /\ Len(BrokerRequestsOf(c)) = 2
                               /\ Len(c.resp) = 2
                               /\ c.ret = Response(2, c.resp[2])
                          ELSE /\ Len(BrokerRequestsOf(c)) = 1
                               /\ Len(c.resp) = 1
                               /\ IsRaise(c.ret)

\* a call returns the second 401 it got
C1_SecondUnauthorizedReturned ==
    \E t \in Threads :
        /\ call[t].pc = "done"
        /\ call[t].resp = <<Unauthorized, Unauthorized>>
        /\ call[t].ret = Response(2, Unauthorized)

\* C2: a call whose first attempt got a status other than 401 has sent
\* exactly one request, to the broker, and none to the identity server; it
\* returns that first response, and the stored access token and headers are
\* what they were when the call began.
C2_OtherStatusReturnedAsIs ==
    \A t \in Threads :
        LET c == call[t]
        IN  (Decorated(c) /\ Len(c.resp) >= 1 /\ c.resp[1] # Unauthorized) =>
                /\ c.pc = "done"
                /\ Len(c.sent) = 1
                /\ ToBroker(c.sent[1])
                /\ c.resp = <<c.resp[1]>>
                /\ c.ret = Response(1, c.resp[1])
                /\ cb = c.cb0

\* a call returns the 404 of its only attempt
C2_NotFoundReturned ==
    \E t \in Threads :
        /\ call[t].pc = "done"
        /\ call[t].op = "retrieve_entity"
        /\ call[t].ret = Response(1, 404)

\* C3: once a renewal has got its token, the stored access token and the
\* stored headers are those of the renewal by the time the operation runs
\* again, and the second broker request carries the headers dict that
\* get_access_token built from the new token: its Authorization is 'Bearer '
\* followed by that token, and the dict is not the one the first request
\* carried.
C3_RetryCarriesNewHeaders ==
    \A t \in Threads :
        LET c == call[t]
            q == BrokerRequestsOf(c)
        IN  /\ (Decorated(c) /\ c.pc = "retry") =>
                   /\ cb.access_token = c.got.access_token
                   /\ cb.headers = c.got.headers
            /\ (Decorated(c) /\ Len(q) = 2) =>
                   /\ c.got # NoToken
                   /\ q[2].headers = c.got.headers
                   /\ DictGet(q[2].headers.d, "Authorization")
                          = Str("Bearer " \o c.got.access_token[2])
                   /\ q[2].headers.oid # q[1].headers.oid
                   /\ q[1].headers = c.cb0.headers

\* the retried request is in flight
C3_RetryInFlight ==
    \E t \in Threads :
        /\ call[t].pc = "wait"
        /\ Len(BrokerRequestsOf(call[t])) = 2
        /\ call[t].op = "update_entity_attributes"

\* C4: the constructor's first request goes to the identity server; when the
\* answer has a status other than 200 the constructor raises an error that
\* carries that status, no ContextBroker exists and no broker request has
\* been sent.  A broker request is only ever sent by a ContextBroker that
\* holds a token, and carries an Authorization header.
C4_TokenBeforeAnyBrokerRequest ==
    \A t \in Threads :
        LET c == call[t]
        IN  /\ c.op = "__init__" =>
                   /\ c.sent = <<SsoRequest>>
                   /\ (c.pc = "done" /\ c.sso[1] # StatusOk) =>
                          /\ c.ret = RaiseWith("Exception", c.sso[1])
                          /\ ~cb.exists
                          /\ cb = NoBroker
            /\ BrokerRequestsOf(c) # <<>> =>
                   /\ cb.exists
                   /\ cb.access_token # None
                   /\ \A i \in 1..Len(BrokerRequestsOf(c)) :
                          DictHas(BrokerRequestsOf(c)[i].headers.d, "Authorization")

\* the identity server has refused the constructor with 401
C4_ConstructorRefused ==
    \E t \in Threads :
        /\ call[t].op = "__init__"
        /\ call[t].pc = "done"
        /\ call[t].sso = <<401>>
        /\ IsRaise(call[t].ret)

\* the classes of the argument the guards let through
IsOfClass(x, K) == IsObj(x) /\ Node(x[2]).cls \in K

WrongArgument(c) ==
    \/ c.op = "create_entity" /\ ~IsOfClass(c.args.x, {"Entity"})
    \/ /\ c.op \in {"update_entity_attributes", "append_entity_attributes"}
       /\ ~IsOfClass(c.args.x, {"Property", "Relationship"})

\* C5: create_entity with an argument that is not an Entity, and
\* update_entity_attributes / append_entity_attributes with a fragment that
\* is neither a Property nor a Relationship, end with TypeError having sent
\* nothing: no broker request, no token request, no second run, and the
\* stored token and headers untouched.
C5_TypeErrorBeforeNetwork ==
    \A t \in Threads :
        LET c == call[t]
        IN  WrongArgument(c) =>
                /\ c.pc = "done"
                /\ c.ret = Raise("TypeError")
                /\ c.sent = <<>>
                /\ c.resp = <<>>
                /\ c.sso = <<>>
                /\ cb = c.cb0

\* update_entity_attributes has been given a GeoProperty
C5_GeoPropertyFragmentRefused ==
    \E t \in Threads :
        /\ call[t].op = "update_entity_attributes"
        /\ IsOfClass(call[t].args.x, {"GeoProperty"})
        /\ call[t].ret = Raise("TypeError")

(***************************************************************************)
(* Properties of to_ngsild, checked under Spec and SpecMeta.  In a state   *)
(* whose last call is to_ngsild, tret is the rendering of node tcall.self  *)
(* in the heap of that state.                                              *)
(***************************************************************************)
Rendered(n) == tcall.op = "to_ngsild" /\ tcall.self = n /\ IsDict(tret)
RenderedEntity(n) == Rendered(n) /\ Node(n).cls = "Entity"
RenderedAttribute(n) == Rendered(n) /\ Node(n).cls # "Entity"

FieldItems(f) == IF IsList(f) THEN ListItems(f[2]) ELSE <<>>
\* the children of a node in the order to_ngsild visits them
Kids(o) == FieldItems(o.properties) \o FieldItems(o.relationships)
KidNames(o) == [i \in 1..Len(Kids(o)) |-> Node(Kids(o)[i][2]).name]

PayloadKey(o) == IF o.cls = "Relationship" THEN "object" ELSE "value"
\* the keys of a body that hold the node's own type and payload
OwnKeys(o) == IF o.cls = "Entity" THEN {"type"} ELSE {"type", PayloadKey(o)}
Entry(d, k, v) == DictHas(d, k) /\ DictGet(d, k) = v
\* the body of node n within its rendering r
BodyOf(n, r) == IF Node(n).cls = "Entity" THEN r ELSE DictGet(r, Node(n).name)

\* C6: an Entity with no properties and no relationships renders as the
\* mapping with exactly the keys '@context', 'id' and 'type', holding
\* at_context (None until one is assigned, then the assigned value), the
\* entity's id and the entity's type.
C6_BareEntityRendering ==
    \A n \in 1..Len(nodes) :
        (/\ tcall.op = "to_ngsild" /\ tcall.self = n
         /\ Node(n).cls = "Entity"
         /\ Node(n).properties = None /\ Node(n).relationships = None) =>
            /\ IsDict(tret)
            /\ Len(tret[2]) = 3
            /\ KeySet(tret) = {"@context", "id", "type"}
            /\ Entry(tret, "@context", Node(n).at_context)
            /\ Entry(tret, "id", Node(n).id)
            /\ Entry(tret, "type", Node(n).type)
            /\ Node(n).at_context \in {None} \cup Contexts

\* a bare Entity without context has been rendered
C6_BareEntityNoContext ==
    \E n \in 1..Len(nodes) :
        /\ RenderedEntity(n)
        /\ Node(n).properties = None /\ Node(n).relationships = None
        /\ Node(n).at_context = None
        /\ Entry(tret, "@context", None)

TypeAndPayloadKept(o, body) ==
    /\ Entry(body, "type", Str(o.cls))
    /\ Entry(body, PayloadKey(o), o.value)

\* C7, as stated: the rendering of a Property, GeoProperty or Relationship,
\* whatever its children and their names, has the node's name as its only
\* top-level key, and the body under it has 'type' equal to the class of
\* the node and the payload key equal to the payload of the node.
C7_NameTypePayloadAlways ==
    \A n \in 1..Len(nodes) :
        RenderedAttribute(n) =>
            /\ DictKeys(tret) = <<Node(n).name>>
            /\ TypeAndPayloadKept(Node(n), BodyOf(n, tret))

NoKidNamedLikeOwnKey(o) == \A i \in 1..Len(Kids(o)) : KidNames(o)[i] \notin OwnKeys(o)

\* C7, amended: the rendering has the node's name as its only top-level key
\* whatever the children; the body has 'type' equal to the class of the node
\* and the payload key equal to the payload of the node provided no child of
\* the node is named 'type' or like the node's payload key.
C7_NameTypePayloadUnlessShadowed ==
    \A n \in 1..Len(nodes) :
        RenderedAttribute(n) =>
            /\ DictKeys(tret) = <<Node(n).name>>
            /\ IsDict(BodyOf(n, tret))
            /\ NoKidNamedLikeOwnKey(Node(n)) =>
                   TypeAndPayloadKept(Node(n), BodyOf(n, tret))

\* a Relationship with a child named 'value' has been rendered
C7_RelationshipWithChildNamedValue ==
    \E n \in 1..Len(nodes) :
        /\ RenderedAttribute(n)
        /\ Node(n).cls = "Relationship"
        /\ Len(Kids(Node(n))) >= 1
        /\ KidNames(Node(n))[1] = "value"

RECURSIVE NestedIn(_, _)
\* body holds the own type (and payload) of node n, and under the name of
\* each child a mapping of which the same is true for the child
NestedIn(n, body) ==
    LET o == Node(n)
    IN  /\ IF o.cls = "Entity" THEN Entry(body, "type", o.type)
           ELSE TypeAndPayloadKept(o, body)
        /\ \A i \in 1..Len(Kids(o)) :
               /\ DictHas(body, KidNames(o)[i])
               /\ IsDict(DictGet(body, KidNames(o)[i]))
               /\ NestedIn(Kids(o)[i][2], DictGet(body, KidNames(o)[i]))

\* C8, as stated: at every depth the body of each child is found under the
\* child's name directly inside the body of its parent (the top level, for
\* an Entity), and the parent's own 'type' and payload are as they were.
C8_ChildrenNestedAlways ==
    \A n \in 1..Len(nodes) : Rendered(n) => NestedIn(n, BodyOf(n, tret))

RECURSIVE WellNamed(_)
\* below n, siblings have different names and no child is named 'type' or
\* like the payload key of its parent
WellNamed(n) ==
    LET o == Node(n)
    IN  /\ NoKidNamedLikeOwnKey(o)
        /\ \A i, j \in 1..Len(Kids(o)) : KidNames(o)[i] = KidNames(o)[j] => i = j
        /\ \A i \in 1..Len(Kids(o)) : WellNamed(Kids(o)[i][2])

\* C8, amended: the same, provided that at every depth the children of one
\* parent have different names and none is named 'type' or like the payload
\* key of the parent.
C8_ChildrenNestedIfWellNamed ==
    \A n \in 1..Len(nodes) :
        (Rendered(n) /\ WellNamed(n)) => NestedIn(n, BodyOf(n, tret))

\* an Entity with a child that has a child has been rendered
C8_TwoLevelsRendered ==
    \E n \in 1..Len(nodes) :
        /\ RenderedEntity(n)
        /\ WellNamed(n)
        /\ \E i \in 1..Len(Kids(Node(n))) : Len(Kids(Node(Kids(Node(n))[i][2]))) >= 1

ObservedAtKeys == {"type", "value", "object", "unitCode", "observedAt", "datasetId"}

\* C9: for a node of every attribute class, the body holds 'observedAt' if
\* and only if observed_at is not None and 'datasetId' if and only if
\* datasetid is not None, each with the stored value, and no key of another
\* spelling.
C9_ObservedAtAndDatasetIdKeys ==
    \A n \in 1..Len(nodes) :
        RenderedAttribute(n) =>
            LET o == Node(n)
                body == BodyOf(n, tret)
            IN  /\ DictHas(body, "observedAt") <=> o.observed_at # None
                /\ DictHas(body, "datasetId") <=> o.datasetid # None
                /\ o.observed_at # None => Entry(body, "observedAt", o.observed_at)
                /\ o.datasetid # None => Entry(body, "datasetId", o.datasetid)
                /\ KeySet(body) \subseteq ObservedAtKeys

LastNamed(o, nm) ==
    CHOOSE j \in 1..Len(Kids(o)) :
        /\ KidNames(o)[j] = nm
        /\ \A k \in 1..Len(Kids(o)) : KidNames(o)[k] = nm => k <= j

\* C10: under the name of each child the parent's body holds exactly one
\* entry, and it is the body of the last child of that name in iteration
\* order (the properties in list order, then the relationships in list
\* order).
C10_LaterChildWins ==
    \A n \in 1..Len(nodes) :
        Rendered(n) =>
            LET o == Node(n)
                body == BodyOf(n, tret)
            IN  \A i \in 1..Len(Kids(o)) :
                    LET nm == KidNames(o)[i]
                        last == Kids(o)[LastNamed(o, nm)][2]
                    IN  /\ Cardinality({k \in 1..Len(body[2]) : body[2][k][1] = nm}) = 1
                        /\ DictGet(body, nm) = DictGet(to_ngsild(last, {}), nm)

\* a parent with a property and a relationship of one name has been rendered
C10_PropertyAndRelationshipSameName ==
    \E n \in 1..Len(nodes) :
        /\ Rendered(n)
        /\ Len(FieldItems(Node(n).properties)) = 1
        /\ Len(FieldItems(Node(n).relationships)) = 1
        /\ KidNames(Node(n))[1] = KidNames(Node(n))[2]
        /\ KidNames(Node(n))[1] = "temp"
        /\ Entry(BodyOf(n, tret), "temp",
                 DictGet(to_ngsild(Kids(Node(n))[2][2], {}), "temp"))
        /\ to_ngsild(Kids(Node(n))[1][2], {}) # to_ngsild(Kids(Node(n))[2][2], {})

(***************************************************************************)
(* Properties of add_* and of the setters, checked under SpecAdd.  A step  *)
(* that makes a call leaves the call in tcall' and its outcome in tret'.   *)
(***************************************************************************)
AddOps == {"add_properties", "add_relationships"}
SetOps == {"set_properties", "set_relationships"}
Fields == {"properties", "relationships"}
FieldOf(op) ==
    IF op \in {"add_properties", "set_properties"} THEN "properties"
    ELSE "relationships"
\* the classes that own children
OwnsChildren(n) == Node(n).cls \in {"Entity", "Property", "Relationship"}
\* the step calls an operation of ops on a node that owns children
Calls(ops) == tcall'.op \in ops /\ ncalls' # ncalls /\ OwnsChildren(tcall'.self)
EmptyArg(v) == v = None \/ (IsList(v) /\ ListItems(v[2]) = <<>>)
\* the sequence a stored field holds in heap ls
ItemsIn(ls, fv) == IF IsList(fv) THEN ls[fv[2]] ELSE <<>>

\* C11 as stated: add_properties / add_relationships with None or with an
\* empty list changes nothing on an Entity, Property or Relationship: the
\* stored fields are exactly what they were, a field that was None included.
C11_EmptyAddIsNoOp ==
    [][(Calls(AddOps) /\ EmptyArg(tcall'.arg))
         => (nodes' = nodes /\ lists' = lists /\ tret' = None)]_vars

\* C11 amended: the call returns None and changes no list; with None, or
\* with an empty list on a field that is not None, no field changes; with
\* an empty list on a field that is None, that field becomes an empty list
\* and nothing else changes.
C11_EmptyAddKeepsSequence ==
    [][(Calls(AddOps) /\ EmptyArg(tcall'.arg))
         => /\ tret' = None
            /\ lists' = lists
            /\ IF tcall'.arg = None \/ Node(tcall'.self)[FieldOf(tcall'.op)] # None
               THEN nodes' = nodes
               ELSE /\ ItemsIn(lists', nodes'[tcall'.self][FieldOf(tcall'.op)]) = <<>>
                    /\ IsList(nodes'[tcall'.self][FieldOf(tcall'.op)])
                    /\ [nodes' EXCEPT ![tcall'.self][FieldOf(tcall'.op)] = None] = nodes]_vars

\* the Entity, whose properties were None, has been given an empty list
C11_EmptyListOnNoneField ==
    /\ tcall.op = "add_properties"
    /\ tcall.self = 1
    /\ ncalls = 1
    /\ IsList(tcall.arg)
    /\ ListItems(tcall.arg[2]) = <<>>
    /\ tret = None
    /\ IsList(Node(1).properties)

\* a node of the kind the receiver's field asks for, or a list of such nodes
GoodArg(n, f, v) ==
    \/ ChildOk(Node(n).cls, f, v)
    \/ IsList(v) /\ AllOk(ListItems(v[2]), Node(n).cls, f)
ArgItems(v) == IF IsList(v) THEN ListItems(v[2]) ELSE <<v>>

\* C12: an add call with a node or a list of nodes returns, and leaves the
\* receiver's sequence as the one before followed by the nodes given, in
\* list order, duplicates kept; the sequences of all other fields and nodes
\* are those of the calls made on them, so they do not change.
C12_AddAppendsInCallOrder ==
    [][(Calls(AddOps) /\ GoodArg(tcall'.self, FieldOf(tcall'.op), tcall'.arg))
         => /\ tret' = None
            /\ \A m \in 1..Len(nodes), g \in Fields :
                   OwnsChildren(m) =>
                     ItemsIn(lists', nodes'[m][g]) =
                       IF m = tcall'.self /\ g = FieldOf(tcall'.op)
                       THEN ItemsIn(lists, Node(m)[g]) \o ArgItems(tcall'.arg)
                       ELSE ItemsIn(lists, Node(m)[g])]_vars

\* C13: an assignment to properties or relationships that does not raise
\* leaves the field None when None was assigned, a one-element list of the
\* node when a node was assigned, and the assigned list itself, unchanged,
\* when a list was assigned.
C13_AssignmentReplaces ==
    [][(Calls(SetOps) /\ ~IsRaise(tret'))
         => /\ tcall'.arg = None => nodes'[tcall'.self][FieldOf(tcall'.op)] = None
            /\ IsObj(tcall'.arg) =>
                  ItemsIn(lists', nodes'[tcall'.self][FieldOf(tcall'.op)]) = <<tcall'.arg>>
            /\ IsList(tcall'.arg) =>
                  /\ nodes'[tcall'.self][FieldOf(tcall'.op)] = tcall'.arg
                  /\ lists'[tcall'.arg[2]] = lists[tcall'.arg[2]]]_vars

(***************************************************************************)
(* Properties of observed_at, checked under SpecObserved.  The constructor *)
(* of a class is the call named like the class; it returns the new node.   *)
(***************************************************************************)
ProprelClasses == {"Property", "GeoProperty", "Relationship"}
\* call c gives c.arg as observed_at to a class of proprel.py, in heap ns
ObservedAtCall(c, ns) ==
    \/ c.op \in ProprelClasses
    \/ c.op = "set_observed_at" /\ ns[c.self].cls \in ProprelClasses
GaveObservedAt == ObservedAtCall(tcall, nodes)
\* the node that call constructed or assigned to
Target == IF tcall.op = "set_observed_at" THEN tcall.self ELSE tret[2]
TzNaive(v) == IsDateTime(v) /\ v[3] = None
TzAware(v) == IsDateTime(v) /\ v[3] # None /\ v[3][2] # None

WrongObservedType(v) == v # None /\ ~IsStr(v) /\ ~IsDateTime(v)

\* C15: observed_at given as something that is neither None, text nor
\* datetime raises TypeError, at construction of a Property, GeoProperty or
\* Relationship (no object is made) and on a later assignment, which leaves
\* the stored observed_at, and all else, as it was.
C15_WrongTypeRaises ==
    [][(ObservedAtCall(tcall', nodes) /\ WrongObservedType(tcall'.arg))
         => (tret' = Raise("TypeError") /\ nodes' = nodes /\ lists' = lists)]_vars

\* an assignment of a number was refused on a node that holds a text
C15_AssignmentRefused ==
    /\ tcall.op = "set_observed_at"
    /\ Node(tcall.self).cls \in ProprelClasses
    /\ WrongObservedType(tcall.arg)
    /\ tret = Raise("TypeError")
    /\ IsStr(Node(tcall.self).observed_at)

\* C16: in every attribute node of every class, the stored observed_at is
\* None or a text, never a datetime or another raw input.
C16_StoredNoneOrText ==
    \A n \in 1..Len(nodes) :
        Node(n).cls # "Entity" =>
            (Node(n).observed_at = None \/ IsStr(Node(n).observed_at))

(***************************************************************************)
(* GeoProperty, checked under SpecAdd                                      *)
(***************************************************************************)
\* the keys of the body of GeoProperty o, in order
GeoKeys(o) ==
    <<"type", "value">>
    \o (IF o.observed_at # None THEN <<"observedAt">> ELSE <<>>)
    \o (IF o.datasetid # None THEN <<"datasetId">> ELSE <<>>)

\* C17: a GeoProperty is terminal.  add_properties and add_relationships on
\* it raise AttributeError, whatever the argument, and change nothing; its
\* rendering is {name: body} with body holding 'type' = 'GeoProperty',
\* 'value' = its value, 'observedAt' and 'datasetId' when they are set, and
\* nothing else, whatever was assigned to it as properties or relationships.
C17_GeoPropertyTerminal ==
    [][/\ (tcall'.op \in AddOps /\ ncalls' # ncalls
             /\ Node(tcall'.self).cls = "GeoProperty")
           => (tret' = Raise("AttributeError") /\ nodes' = nodes /\ lists' = lists)
       /\ (tcall'.op = "to_ngsild" /\ Node(tcall'.self).cls = "GeoProperty")
           => /\ IsDict(tret')
              /\ DictKeys(tret') = <<Node(tcall'.self).name>>
              /\ DictKeys(tret'[2][1][2]) = GeoKeys(Node(tcall'.self))
              /\ DictGet(tret'[2][1][2], "type") = Str("GeoProperty")
              /\ DictGet(tret'[2][1][2], "value") = Node(tcall'.self).value]_vars

\* a GeoProperty that was assigned a list of nodes as properties has been
\* rendered
C17_GeoPropertyAssignedAndRendered ==
    /\ tcall.op = "to_ngsild"
    /\ Node(tcall.self).cls = "GeoProperty"
    /\ IsList(Node(tcall.self).properties)
    /\ ListItems(Node(tcall.self).properties[2]) # <<>>
    /\ IsDict(tret)

(***************************************************************************)
(* The fragment operations, checked under SpecBroker                       *)
(***************************************************************************)
FragmentOps == {"update_entity_attributes", "append_entity_attributes"}
\* d is dict e and, after it, one more key k holding v
PlusKey(d, e, k, v) ==
    /\ IsDict(d)
    /\ DictKeys(d) = Append(DictKeys(e), k)
    /\ \A i \in 1..Len(e[2]) : d[2][i] = e[2][i]
    /\ d[2][Len(d[2])][2] = v
\* the requests of a fragment operation go by PATCH (update) or POST
\* (append) to entities/{id}/attrs/
FragmentRoute(c, q) ==
    /\ q.method = (IF c.op = "update_entity_attributes" THEN "PATCH" ELSE "POST")
    /\ q.url = CbHost \o "ngsi-ld/v1/entities/" \o c.args.entity_id[2] \o "/attrs/"

\* C18 as stated: every broker request of update_entity_attributes and of
\* append_entity_attributes goes by PATCH, respectively POST, to
\* entities/{id}/attrs/, its body is the fragment's rendering and one more
\* top-level key '@context' holding the context given, and the fragment
\* object is as it was.
C18_FragmentBodyStamped ==
    \A t \in Threads :
        \A i \in 1..Len(BrokerRequestsOf(call[t])) :
            call[t].op \in FragmentOps =>
                /\ FragmentRoute(call[t], BrokerRequestsOf(call[t])[i])
                /\ PlusKey(BrokerRequestsOf(call[t])[i].body,
                           to_ngsild(call[t].args.x[2], {}),
                           "@context", call[t].args.at_context)
                /\ nodes = BrokerObjects /\ lists = << <<Obj(3)>> >>

\* C18 amended: the same, the body for every fragment that is not itself
\* named '@context'.
C18_FragmentBodyStampedUnlessNamedContext ==
    \A t \in Threads :
        \A i \in 1..Len(BrokerRequestsOf(call[t])) :
            call[t].op \in FragmentOps =>
                /\ FragmentRoute(call[t], BrokerRequestsOf(call[t])[i])
                /\ Node(call[t].args.x[2]).name # "@context" =>
                       PlusKey(BrokerRequestsOf(call[t])[i].body,
                               to_ngsild(call[t].args.x[2], {}),
                               "@context", call[t].args.at_context)
                /\ nodes = BrokerObjects /\ lists = << <<Obj(3)>> >>

\* plant_health, which has a sub-property, has been sent by
\* append_entity_attributes
C18_NestedFragmentAppended ==
    \E t \in Threads :
        /\ call[t].op = "append_entity_attributes"
        /\ call[t].args.x = Obj(2)
        /\ Len(BrokerRequestsOf(call[t])) >= 1

(***************************************************************************)
(* get_token, checked under SpecToken                                      *)
(***************************************************************************)
\* the request succeeded and its JSON holds the field
TokenGranted(ans) ==
    /\ ~IsRaise(ans)
    /\ ans[2] < 400
    /\ IsDict(ans[3])
    /\ "access_token" \in KeySet(ans[3])

\* C19: get_token never raises; it returns the 'access_token' field when the
\* request succeeds and the field is present, and None in every other case:
\* transport error, non-success status, body that is no JSON, JSON without
\* the field.
C19_GetTokenNeverRaises ==
    tcall.op = "get_token" =>
        /\ ~IsRaise(tret)
        /\ tret = IF TokenGranted(tcall.arg)
                  THEN DictGet(tcall.arg[3], "access_token")
                  ELSE None

\* the server answered 200 with JSON that holds no 'access_token'
C19_FieldMissing ==
    /\ tcall.op = "get_token"
    /\ tcall.arg = <<"answer", 200, Dict(<< <<"error", Str("invalid_client")>> >>)>>
    /\ tret = None

(***************************************************************************)
(* The order of the merge, checked under Spec.  There a node is given to   *)
(* its parent before the next node is made, and only once, so of two       *)
(* children of one node the one with the smaller number was added first.   *)
(***************************************************************************)
KeyPos(d, k) == CHOOSE i \in 1..Len(d[2]) : d[2][i][1] = k
\* child a of o has a name no other child of o has and that is not one of
\* o's own keys: its key enters the body when it is merged
OwnName(o, a) ==
    /\ Node(a).name \notin OwnKeys(o)
    /\ Cardinality({k \in 1..Len(Kids(o)) : KidNames(o)[k] = Node(a).name}) = 1
KidSet(o) == {Kids(o)[i][2] : i \in 1..Len(Kids(o))}
IsPropertyKid(o, a) == Obj(a) \in Held(o.properties)

\* C20 as stated: whatever the mix of property and relationship children,
\* of two children of one node the one added earlier is merged into the
\* parent's body before the one added later: its key comes first.
C20_MergedInAddOrder ==
    \A n \in 1..Len(nodes) :
        Rendered(n) =>
            \A a, b \in KidSet(Node(n)) :
                (a < b /\ OwnName(Node(n), a) /\ OwnName(Node(n), b))
                  => KeyPos(BodyOf(n, tret), Node(a).name)
                       < KeyPos(BodyOf(n, tret), Node(b).name)

\* C20 amended: each child is merged with its whole rendered subtree; the
\* property children are merged in the order they were added, then the
\* relationship children in the order they were added, so a property child
\* comes before a relationship child whichever was added first.
C20_PropertiesThenRelationships ==
    \A n \in 1..Len(nodes) :
        Rendered(n) =>
            \A a, b \in KidSet(Node(n)) :
                (a # b /\ OwnName(Node(n), a) /\ OwnName(Node(n), b))
                  => /\ Entry(BodyOf(n, tret), Node(a).name,
                              DictGet(to_ngsild(a, {}), Node(a).name))
                     /\ (KeyPos(BodyOf(n, tret), Node(a).name)
                            < KeyPos(BodyOf(n, tret), Node(b).name))
                        <=> \/ IsPropertyKid(Node(n), a) /\ ~IsPropertyKid(Node(n), b)
                            \/ /\ IsPropertyKid(Node(n), a) = IsPropertyKid(Node(n), b)
                               /\ a < b

\* a node whose relationship child was added before its property child has
\* been rendered
C20_RelationshipAddedFirst ==
    \E n \in 1..Len(nodes) :
        /\ Rendered(n)
        /\ \E a, b \in KidSet(Node(n)) :
              /\ a < b
              /\ ~IsPropertyKid(Node(n), a)
              /\ IsPropertyKid(Node(n), b)
              /\ OwnName(Node(n), a)
              /\ OwnName(Node(n), b)

(***************************************************************************)
(* Arguments of add_* and of the setters, checked under SpecAdd            *)
(***************************************************************************)
\* C21: add_properties, add_relationships and the two setters raise
\* TypeError for every argument that is not None, a node of the kind the
\* receiver asks for, or a list of such nodes only, a list with one element
\* of another kind included; the heap is then as it was.
C21_BadArgumentRaises ==
    [][(/\ Calls(AddOps \cup SetOps)
        /\ tcall'.arg # None
        /\ ~GoodArg(tcall'.self, FieldOf(tcall'.op), tcall'.arg))
         => (tret' = Raise("TypeError") /\ nodes' = nodes /\ lists' = lists)]_vars

IsGeoProperty(v) == IsObj(v) /\ Node(v[2]).cls = "GeoProperty"
\* the GeoProperty nodes of an argument that is a GeoProperty or a list of
\* Property and GeoProperty nodes
GeoItems(v) ==
    IF IsGeoProperty(v) THEN {v}
    ELSE IF IsList(v) /\ \A i \in 1..Len(ListItems(v[2])) : IsBaseProperty(ListItems(v[2])[i])
    THEN {g \in Held(v) : IsGeoProperty(g)}
    ELSE {}

\* C22: add_properties and the properties setter of Entity, Property and
\* Relationship accept a GeoProperty, alone or in a list of properties: the
\* call returns and the properties sequence then holds it; a GeoProperty
\* child with a name of its own is rendered as a sibling key whose body has
\* type 'GeoProperty'.
C22_GeoPropertyAccepted ==
    [][/\ (Calls({"add_properties", "set_properties"}) /\ GeoItems(tcall'.arg) # {})
           => /\ tret' = None
              /\ \A g \in GeoItems(tcall'.arg) :
                    \E i \in 1..Len(ItemsIn(lists', nodes'[tcall'.self].properties)) :
                        ItemsIn(lists', nodes'[tcall'.self].properties)[i] = g
       /\ (tcall'.op = "to_ngsild" /\ OwnsChildren(tcall'.self) /\ IsDict(tret'))
           => \A g \in Held(Node(tcall'.self).properties) :
                 (IsGeoProperty(g) /\ OwnName(Node(tcall'.self), g[2]))
                   => /\ DictHas(BodyOf(tcall'.self, tret'), Node(g[2]).name)
                      /\ DictGet(DictGet(BodyOf(tcall'.self, tret'), Node(g[2]).name), "type")
                           = Str("GeoProperty")]_vars

(* The value of a GeoProperty, checked under SpecGeo *)
Geometry(v) == IsDict(v) /\ DictHas(v, "type") /\ DictHas(v, "coordinates")

\* C23: a GeoProperty constructed or assigned with a value that is no dict
\* holding both 'type' and 'coordinates' is refused with TypeError, and a
\* refused assignment leaves the stored value as it was.
C23_ValueIsGeometry ==
    [][(tcall'.op \in {"GeoProperty", "set_value"} /\ ~Geometry(tcall'.arg))
         => (tret' = Raise("TypeError") /\ nodes' = nodes)]_vars

(* Termination of to_ngsild, checked under SpecAdd *)
\* the children of node n; what is assigned to a GeoProperty under the name
\* of a field is no child of it
ChildSet(n) == IF OwnsChildren(n) THEN KidSet(Node(n)) ELSE {}
RECURSIVE Reached(_, _)
\* the nodes of S and those met within k steps down from them
Reached(S, k) ==
    IF k = 0 THEN S
    ELSE Reached(S \cup UNION {ChildSet(m) : m \in S}, k - 1)
Descendants(n) == Reached(ChildSet(n), Len(nodes))
OwnDescendant(n) == n \in Descendants(n)
\* the structure below n holds a node that is its own descendant
Cyclic(n) == \E m \in {n} \cup Descendants(n) : OwnDescendant(m)
\* a node below n that two nodes of the structure hold
SharedBelow(n) ==
    \E m \in Descendants(n) :
        Cardinality({q \in {n} \cup Descendants(n) : m \in ChildSet(q)}) >= 2
\* the longest chain of nodes below n, n counted, of a structure without cycle
RECURSIVE Depth(_)
Depth(n) ==
    IF ChildSet(n) = {} THEN 1
    ELSE 1 + CHOOSE d \in 1..Len(nodes) :
                 /\ \E m \in ChildSet(n) : Depth(m) = d
                 /\ \A m \in ChildSet(n) : Depth(m) <= d

\* C24 as stated: to_ngsild returns its payload on every structure in which
\* no node is its own descendant; on a structure in which some node is its
\* own descendant the call never ends, so no step completes it.
C24_CycleNeverEnds ==
    [][tcall'.op = "to_ngsild"
         => (~Cyclic(tcall'.self) /\ IsDict(tret'))]_vars

\* C24: to_ngsild returns its payload on every structure in which no node
\* is its own descendant, whatever its depth and with nodes shared by two
\* parents; on a structure in which some node is its own descendant it
\* returns no payload and ends with RecursionError.
C24_EndsWithPayloadOrRecursionError ==
    [][tcall'.op = "to_ngsild"
         => IF Cyclic(tcall'.self) THEN tret' = Raise("RecursionError")
            ELSE IsDict(tret')]_vars

\* to_ngsild has returned the payload of a structure three levels deep
\* with a node held by two parents
C24_SharedNodeRendered ==
    /\ tcall.op = "to_ngsild"
    /\ ~Cyclic(tcall.self)
    /\ SharedBelow(tcall.self)
    /\ Depth(tcall.self) >= 3
    /\ IsDict(tret)

(* Cycles, checked under SpecAdd *)
\* C25: add_properties, add_relationships and the setters accept every node
\* of the kind the receiver asks for without error and store it, the
\* receiver itself and its ancestors included: no call looks for a cycle.
C25_NodeOfKindAccepted ==
    [][(/\ Calls(AddOps \cup SetOps)
        /\ IsObj(tcall'.arg)
        /\ ChildOk(Node(tcall'.self).cls, FieldOf(tcall'.op), tcall'.arg))
         => /\ tret' = None
            /\ \E i \in 1..Len(ItemsIn(lists', nodes'[tcall'.self][FieldOf(tcall'.op)])) :
                   ItemsIn(lists', nodes'[tcall'.self][FieldOf(tcall'.op)])[i] = tcall'.arg]_vars

\* a node was handed one of its ancestors as a child and is now its own
\* descendant
C25_AncestorBecameChild ==
    /\ tcall.op \in AddOps \cup SetOps
    /\ IsObj(tcall.arg)
    /\ tcall.arg[2] # tcall.self
    /\ tret = None
    /\ Obj(tcall.arg[2]) \in Held(Node(tcall.self)[FieldOf(tcall.op)])
    /\ tcall.self \in Descendants(tcall.arg[2])
    /\ OwnDescendant(tcall.self)

(* Renewal of the credentials by two threads, checked under SpecThreads *)
\* call c saw 401 in answer to its first request
Saw401(c) == Len(c.resp) >= 1 /\ c.resp[1] = Unauthorized
\* the step takes the call of thread t from one place to another
Moves(t, from, to) == call[t].pc = from /\ call'[t].pc = to
LastSent(c) == c.sent[Len(c.sent)]

\* C26: the renewal of one call waits for nothing and excludes nothing: a
\* call that sees 401 on its first request asks for a token of its own
\* whatever the other call is doing, it writes the token it got and then, in
\* a later step, the headers it got, each store leaving the other field as
\* it is, and its retry is sent with the headers stored at that moment.
C26_RenewalUnsynchronized ==
    [][\A t \in Threads :
          /\ (call[t].pc = "wait" /\ call'[t].pc # "wait"
                 /\ Len(call[t].resp) = 0 /\ call'[t].resp[1] = Unauthorized)
                => (call'[t].pc = "sso_wait" /\ LastSent(call'[t]) = SsoRequest)
          /\ Moves(t, "store_token", "store_headers")
                => (cb'.access_token = call[t].got.access_token
                    /\ cb'.headers = cb.headers)
          /\ Moves(t, "store_headers", "retry")
                => (cb'.headers = call[t].got.headers
                    /\ cb'.access_token = cb.access_token)
          /\ Moves(t, "retry", "wait")
                => LastSent(call'[t]).headers = cb.headers]_vars

\* both calls saw 401 for the token the constructor stored and each got a
\* token of its own; the stored token is the one of one call and the stored
\* headers are those of the other, with which the first call sent its retry
C26_TokenAndHeadersOfTwoCalls ==
    \E t, u \in Threads :
        /\ t # u
        /\ Saw401(call[t]) /\ Saw401(call[u])
        /\ call[t].cb0 = call[u].cb0
        /\ call[t].got.access_token # call[u].got.access_token
        /\ call[t].pc = "wait" /\ call[u].pc = "retry"
        /\ cb.access_token = call[t].got.access_token
        /\ cb.headers = call[u].got.headers
        /\ LastSent(call[t]).to = "broker"
        /\ LastSent(call[t]).headers = call[u].got.headers

(* The stored credentials of a ContextBroker used by one thread, checked *)
(* under SpecBroker                                                       *)
HeadersOfToken ==
    /\ DictHas(cb.headers.d, "Authorization")
    /\ DictGet(cb.headers.d, "Authorization") = Str("Bearer " \o cb.access_token[2])
    /\ DictHas(cb.headers.d, "Content-Type")
    /\ DictGet(cb.headers.d, "Content-Type") = Str("application/ld+json")

\* C27: once a ContextBroker is constructed, in every state between two
\* operations and in every state of an operation but the one between the
\* two stores of a renewal, the stored headers are those of the stored
\* token: Authorization is 'Bearer ' followed by access_token and
\* Content-Type is 'application/ld+json'.
C27_HeadersOfStoredToken ==
    (cb.exists /\ \A t \in Threads : call[t].pc # "store_headers") => HeadersOfToken

\* a call has renewed the token, run again and ended, and the stored token
\* is not the one the call began with
C27_RenewedAndReturned ==
    /\ cb.exists
    /\ call[MainThread].pc = "done"
    /\ Saw401(call[MainThread])
    /\ Len(call[MainThread].resp) = 2
    /\ cb.access_token # call[MainThread].cb0.access_token
    /\ cb.headers # call[MainThread].cb0.headers

\* C28: when the identity server answers the renewal of a call with a
\* status other than 200, the call ends with the error of get_access_token
\* in place of the 401 response, the operation has run once only, and the
\* stored access token and headers are those of before the call.
C28_FailedRenewalPropagates ==
    \A t \in Threads :
        LET c == call[t]
        IN  (Decorated(c) /\ Saw401(c) /\ Len(c.sso) = 1 /\ c.sso[1] # StatusOk) =>
                /\ c.pc = "done"
                /\ c.ret = RaiseWith("Exception", c.sso[1])
                /\ Len(BrokerRequestsOf(c)) = 1
                /\ c.resp = <<Unauthorized>>
                /\ cb = c.cb0

\* the identity server has answered the renewal of a call with 500
C28_RenewalRefused ==
    /\ Decorated(call[MainThread])
    /\ call[MainThread].resp = <<Unauthorized>>
    /\ call[MainThread].sso = <<500>>
    /\ call[MainThread].pc = "done"
    /\ IsRaise(call[MainThread].ret)

(* Lists given by the caller, checked under SpecAdd *)
\* C29: a list given to add_properties / add_relationships or to a setter
\* is not retained: after the call the receiver's field is a sequence of its
\* own, neither the list given nor the list of any other field.
C29_ListNotRetained ==
    [][(/\ Calls(AddOps \cup SetOps)
        /\ IsList(tcall'.arg)
        /\ Node(tcall'.self)[FieldOf(tcall'.op)] # tcall'.arg
        /\ tret' = None)
         => /\ nodes'[tcall'.self][FieldOf(tcall'.op)] # tcall'.arg
            /\ \A m \in 1..Len(nodes), g \in Fields :
                   (/\ OwnsChildren(m)
                    /\ <<m, g>> # <<tcall'.self, FieldOf(tcall'.op)>>
                    /\ IsList(nodes'[m][g]))
                     => nodes'[m][g] # nodes'[tcall'.self][FieldOf(tcall'.op)]]_vars

(* The fields of a node after any calls, checked under SpecCtor *)
PermittedKind(f, v) ==
    IF f = "properties" THEN IsBaseProperty(v) ELSE IsRelationship(v)

\* C30: whatever constructors, assignments and add_* calls have completed,
\* the properties and the relationships of every Entity, Property and
\* Relationship are each None or a list of nodes of the permitted kind.
C30_FieldsNoneOrListOfKind ==
    \A n \in 1..Len(nodes), f \in Fields :
        OwnsChildren(n) =>
            \/ Node(n)[f] = None
            \/ /\ IsList(Node(n)[f])
               /\ \A v \in Held(Node(n)[f]) : PermittedKind(f, v)

====
